---- MODULE Spec2Model ----
(***************************************************************************)
(* axum-guard-router: a guarded router builder (GuardRouter), the action   *)
(* aggregate (Action), the guard layer (GuardActionLayer) and the guard    *)
(* middleware (GuardService).                                              *)
(*                                                                         *)
(* Paths are sequences of segments: "/" is <<>>, "/test" is <<"test">>,    *)
(* "/api/test" is <<"api", "test">>.                                       *)
(***************************************************************************)
EXTENDS Integers, Sequences, FiniteSets, TLC

VARIABLES pc, guard, resource, roles, actions, router, app, nestDepth,
          rolesCalls, last, tasks, running, builds, given, event

vars == <<pc, guard, resource, roles, actions, router, app, nestDepth,
          rolesCalls, last, tasks, running, builds, given, event>>

\* given: the paths handed to action() and route(), in call order
builderVars == <<guard, resource, roles, actions, rolesCalls, given>>
\* builds: the number of build() calls made on the builder
serveVars == <<router, app, nestDepth, builds>>
\* event: an event a guard may await, and the worker of the task that sets it
concVars == <<tasks, running, event>>

(***************************************************************************)
(* Bounds and input sets.                                                  *)
(***************************************************************************)
MaxActions == 2
MaxRolesCalls == 2
MaxNest == 2
MaxTasks == 2
NumWorkers == 2
MaxBuilds == 2

Methods == {"GET", "POST"}
Names == {"action1", "action2"}
Paths == {<<>>, <<"test">>}
Prefix == <<"api">>
RoleLists == {<<>>, <<"admin">>, <<"user">>}
Bodies == {"b1", "b2"}
Resource == "my:test"

(***************************************************************************)
(* Option<Vec<String>> : None / Some(list).                                *)
(***************************************************************************)
NoRoles == [some |-> FALSE, val |-> <<>>]
SomeRoles(l) == [some |-> TRUE, val |-> l]

(***************************************************************************)
(* Requests and responses.                                                 *)
(***************************************************************************)
NoReq == [path |-> <<>>, method |-> "", body |-> ""]

NoLayer == [on |-> FALSE, resource |-> "", action |-> "", roles |-> NoRoles]

Resp(status, src, h, req, svc) ==
    [status |-> status, src |-> src, h |-> h, req |-> req,
     resource |-> svc.resource, action |-> svc.action, roles |-> svc.roles]

NoResp == Resp(0, "", "", NoReq, NoLayer)

\* a handler's response: 200, produced by handler h from the request it got
HandlerResponse(h, req) == Resp(200, "handler", h, req, NoLayer)

\* Err(e) of a downstream service (S::Error); Ok(response) is any other value
ServiceError(h, req) == Resp(0, "error", h, req, NoLayer)

IsErr(r) == r.src = "error"

\* downstream services whose call returns Err
Failing == {"failing"}

\* the host router's own answers
MethodNotAllowed == Resp(405, "fallback", "", NoReq, NoLayer)
NotFound == Resp(404, "router", "", NoReq, NoLayer)

(***************************************************************************)
(* The guard (OnGuard implementation).  It is supplied by the caller: it   *)
(* denies the actions in `denied` and answers on_roles with roles_result.  *)
(* A denial carries a response the guard builds from its arguments.        *)
(***************************************************************************)
Guards == [denied : SUBSET Names, roles_result : BOOLEAN]

Allow == [ok |-> TRUE, resp |-> NoResp]
Deny(r) == [ok |-> FALSE, resp |-> r]

on_guard(g, res, action) ==
    IF action \in g.denied
    THEN Deny(Resp(403, "on_guard", "", NoReq,
                   [on |-> TRUE, resource |-> res, action |-> action,
                    roles |-> NoRoles]))
    ELSE Allow

on_roles(g, rs) ==
    IF g.roles_result
    THEN Allow
    ELSE Deny(Resp(403, "on_roles", "", NoReq,
                   [on |-> TRUE, resource |-> "", action |-> "",
                    roles |-> SomeRoles(rs)]))

(***************************************************************************)
(* The host framework's MethodRouter: one optional endpoint per method     *)
(* and a fallback route (405 by default).  A route is a handler under a    *)
(* stack of layers, outermost first.                                       *)
(***************************************************************************)
NoEndpoint == [set |-> FALSE, route |-> [h |-> "", layers |-> <<>>]]

MethodRouterNew ==
    [ep |-> [m \in Methods |-> NoEndpoint],
     fallback |-> [h |-> "405", layers |-> <<>>]]

MethodRouterOn(mr, m, h) ==
    [mr EXCEPT !.ep[m] = [set |-> TRUE, route |-> [h |-> h, layers |-> <<>>]]]

\* layer.rs, Layer::layer: a GuardService with the layer's fields around inner
GuardActionLayerLayer(l, inner) == [inner EXCEPT !.layers = <<l>> \o @]

\* MethodRouter::layer wraps every endpoint that is set, and the fallback
MethodRouterLayer(mr, l) ==
    [ep |-> [m \in Methods |->
                IF mr.ep[m].set
                THEN [set |-> TRUE, route |-> GuardActionLayerLayer(l, mr.ep[m].route)]
                ELSE mr.ep[m]],
     fallback |-> GuardActionLayerLayer(l, mr.fallback)]

\* MethodRouter::merge panics when both sides handle one method
MergeOverlaps(a, b) == \E m \in Methods : a.ep[m].set /\ b.ep[m].set

\* two default fallbacks merge into the second one
MethodRouterMerge(a, b) ==
    [ep |-> [m \in Methods |-> IF b.ep[m].set THEN b.ep[m] ELSE a.ep[m]],
     fallback |-> b.fallback]

(***************************************************************************)
(* action.rs : the Action aggregate, a list of (name, MethodRouter).       *)
(***************************************************************************)
ActionNew == <<>>

ActionOn(a, filter, name, handler) ==
    Append(a, [name |-> name,
               mr |-> MethodRouterOn(MethodRouterNew, filter, handler)])

ActionRouters(a) == a

ActionCreate(name, method_router) == <<[name |-> name, mr |-> method_router]>>

(***************************************************************************)
(* layer.rs : GuardActionLayer::new(..).roles(..).                         *)
(***************************************************************************)
GuardActionLayerNew(res, action) ==
    [on |-> TRUE, resource |-> res, action |-> action, roles |-> NoRoles]

GuardActionLayerRoles(l, rs) == [l EXCEPT !.roles = rs]


(***************************************************************************)
(* service.rs : GuardService::call.                                        *)
(* One trace entry per call made while a request is served, in call order: *)
(* "call" (the middleware is entered with req), "on_roles", "on_guard",    *)
(* "handler" (the downstream handler h is invoked with req); each with     *)
(* what the call returned.                                                 *)
(***************************************************************************)
Entry(op, svc, res, h, req) ==
    [op |-> op, resource |-> svc.resource, action |-> svc.action,
     roles |-> svc.roles, ok |-> res.ok, resp |-> res.resp, h |-> h, req |-> req]

\* variant: the resource/action check runs first, the role check second
GuardCheckGuardFirst(g, svc) ==
    LET guardRes == on_guard(g, svc.resource, svc.action)
        guardTrace == <<Entry("on_guard", [svc EXCEPT !.roles = NoRoles],
                              guardRes, "", NoReq)>>
        rolesRes == IF svc.roles.some THEN on_roles(g, svc.roles.val) ELSE Allow
        rolesTrace == IF svc.roles.some
                      THEN <<Entry("on_roles", [svc EXCEPT !.resource = "", !.action = ""],
                                   rolesRes, "", NoReq)>>
                      ELSE <<>>
    IN  IF ~guardRes.ok
        THEN [ok |-> FALSE, resp |-> guardRes.resp, trace |-> guardTrace]
        ELSE [ok |-> rolesRes.ok, resp |-> rolesRes.resp,
              trace |-> guardTrace \o rolesTrace]

\* variant: on_roles is called whether or not a role list is present
GuardCheckAlwaysRoles(g, svc) ==
    LET rolesRes == on_roles(g, svc.roles.val)
        rolesTrace == <<Entry("on_roles", [svc EXCEPT !.resource = "", !.action = ""],
                              rolesRes, "", NoReq)>>
        guardRes == on_guard(g, svc.resource, svc.action)
    IN  IF ~rolesRes.ok
        THEN [ok |-> FALSE, resp |-> rolesRes.resp, trace |-> rolesTrace]
        ELSE [ok |-> guardRes.ok, resp |-> guardRes.resp,
              trace |-> rolesTrace \o
                        <<Entry("on_guard", [svc EXCEPT !.roles = NoRoles],
                                guardRes, "", NoReq)>>]

\* the async block handed to block_on: role check, then resource/action check
GuardCheck(g, svc) ==
    LET rolesRes == IF svc.roles.some THEN on_roles(g, svc.roles.val) ELSE Allow
        rolesTrace == IF svc.roles.some
                      THEN <<Entry("on_roles", [svc EXCEPT !.resource = "", !.action = ""],
                                   rolesRes, "", NoReq)>>
                      ELSE <<>>
        guardRes == on_guard(g, svc.resource, svc.action)
    IN  IF ~rolesRes.ok
        THEN [ok |-> FALSE, resp |-> rolesRes.resp, trace |-> rolesTrace]
        ELSE [ok |-> guardRes.ok, resp |-> guardRes.resp,
              trace |-> rolesTrace \o
                        <<Entry("on_guard", [svc EXCEPT !.roles = NoRoles],
                                guardRes, "", NoReq)>>]

RECURSIVE RouteCall(_, _, _)

\* variant: a denial does not stop the call to the downstream service
GuardServiceCallForwardOnDeny(g, svc, inner, request) ==
    LET entered == <<Entry("call", svc, Allow, "", request)>>
        result == GuardCheck(g, svc)
        future == RouteCall(g, inner, request)
    IN  [trace |-> entered \o result.trace \o future.trace,
         resp |-> IF result.ok THEN future.resp ELSE result.resp]

\* variant: the downstream service gets a request without its body
GuardServiceCallDropBody(g, svc, inner, request) ==
    LET entered == <<Entry("call", svc, Allow, "", request)>>
        result == GuardCheck(g, svc)
    IN  IF ~result.ok
        THEN [trace |-> entered \o result.trace, resp |-> result.resp]
        ELSE LET future == RouteCall(g, inner, [request EXCEPT !.body = ""])
             IN  [trace |-> entered \o result.trace \o future.trace,
                  resp |-> future.resp]

\* variant: a downstream error is turned into a response of the middleware
GuardServiceCallSwallowError(g, svc, inner, request) ==
    LET entered == <<Entry("call", svc, Allow, "", request)>>
        result == GuardCheck(g, svc)
    IN  IF ~result.ok
        THEN [trace |-> entered \o result.trace, resp |-> result.resp]
        ELSE LET future == RouteCall(g, inner, request)
             IN  [trace |-> entered \o result.trace \o future.trace,
                  resp |-> IF IsErr(future.resp)
                           THEN Resp(500, "middleware", "", NoReq, svc)
                           ELSE future.resp]

\* Deny is returned as Ok(ret); `future.await?` hands on Ok and Err alike
GuardServiceCall(g, svc, inner, request) ==
    LET entered == <<Entry("call", svc, Allow, "", request)>>
        result == GuardCheck(g, svc)
    IN  IF ~result.ok
        THEN [trace |-> entered \o result.trace, resp |-> result.resp]
        ELSE LET future == RouteCall(g, inner, request)
             IN  [trace |-> entered \o result.trace \o future.trace,
                  resp |-> future.resp]

\* calling a route: its layers from the outside in, then its handler
RouteCall(g, route, req) ==
    IF route.layers # <<>>
    THEN GuardServiceCall(g, Head(route.layers),
                          [route EXCEPT !.layers = Tail(@)], req)
    ELSE IF route.h = "405"
         THEN [trace |-> <<>>, resp |-> MethodNotAllowed]
         ELSE IF route.h \in Failing
         THEN [trace |-> <<Entry("handler", NoLayer,
                                 [ok |-> FALSE, resp |-> ServiceError(route.h, req)],
                                 route.h, req)>>,
               resp |-> ServiceError(route.h, req)]
         ELSE [trace |-> <<Entry("handler", NoLayer,
                                 [ok |-> TRUE, resp |-> HandlerResponse(route.h, req)],
                                 route.h, req)>>,
               resp |-> HandlerResponse(route.h, req)]

\* MethodRouter dispatch: the method's endpoint, else the fallback
MethodRouterCall(g, mr, req) ==
    IF mr.ep[req.method].set
    THEN RouteCall(g, mr.ep[req.method].route, req)
    ELSE RouteCall(g, mr.fallback, req)

(***************************************************************************)
(* The host framework's Router: path -> MethodRouter.  ok = FALSE stands   *)
(* for a panic while the router was put together.  strip is the number of  *)
(* leading segments a nested route removes from the request path.          *)
(***************************************************************************)
RouterNew == [ok |-> TRUE, routes |-> [p \in {} |-> [mr |-> MethodRouterNew, strip |-> 0]]]

RouterRoute(r, path, mr) ==
    IF ~r.ok THEN r
    ELSE IF path \in DOMAIN r.routes
    THEN IF MergeOverlaps(r.routes[path].mr, mr)
         THEN [r EXCEPT !.ok = FALSE]
         ELSE [r EXCEPT !.routes[path].mr = MethodRouterMerge(@, mr)]
    ELSE [r EXCEPT !.routes =
            [p \in DOMAIN r.routes \cup {path} |->
                IF p = path THEN [mr |-> mr, strip |-> 0] ELSE r.routes[p]]]

\* variant: the nested route does not strip the prefix it was nested under
RouterNestNoStrip(prefix, inner) ==
    [ok |-> inner.ok,
     routes |-> [q \in {prefix \o p : p \in DOMAIN inner.routes} |->
                   LET p == SubSeq(q, Len(prefix) + 1, Len(q))
                   IN  [mr |-> inner.routes[p].mr,
                        strip |-> inner.routes[p].strip]]]

\* Router::new().nest(prefix, inner)
RouterNest(prefix, inner) ==
    [ok |-> inner.ok,
     routes |-> [q \in {prefix \o p : p \in DOMAIN inner.routes} |->
                   LET p == SubSeq(q, Len(prefix) + 1, Len(q))
                   IN  [mr |-> inner.routes[p].mr,
                        strip |-> inner.routes[p].strip + Len(prefix)]]]

RouterCall(g, r, req) ==
    IF req.path \in DOMAIN r.routes
    THEN LET e == r.routes[req.path]
             inner == [req EXCEPT !.path = SubSeq(@, e.strip + 1, Len(@))]
         IN  MethodRouterCall(g, e.mr, inner)
    ELSE [trace |-> <<>>, resp |-> NotFound]

(***************************************************************************)
(* router.rs : GuardRouter::build.                                         *)
(***************************************************************************)
RECURSIVE BuildMethodRouter(_, _, _, _)
\* variant: the layer is created with resource and action name swapped
BuildMethodRouterSwapped(method_router, rs, res, rls) ==
    IF rs = <<>> THEN [ok |-> TRUE, mr |-> method_router]
    ELSE LET name == Head(rs).name
             r == Head(rs).mr
             layered == MethodRouterLayer(r,
                           GuardActionLayerRoles(GuardActionLayerNew(name, res), rls))
         IN  IF MergeOverlaps(method_router, layered)
             THEN [ok |-> FALSE, mr |-> method_router]
             ELSE BuildMethodRouter(MethodRouterMerge(method_router, layered),
                                    Tail(rs), res, rls)

\* variant: the layer is applied after the merge, to everything merged so far
BuildMethodRouterLayerAfterMerge(method_router, rs, res, rls) ==
    IF rs = <<>> THEN [ok |-> TRUE, mr |-> method_router]
    ELSE LET name == Head(rs).name
             r == Head(rs).mr
             l == GuardActionLayerRoles(GuardActionLayerNew(res, name), rls)
         IN  IF MergeOverlaps(method_router, r)
             THEN [ok |-> FALSE, mr |-> method_router]
             ELSE BuildMethodRouter(
                      MethodRouterLayer(MethodRouterMerge(method_router, r), l),
                      Tail(rs), res, rls)

\* the inner loop of build: merge each (name, r) of the action, layered
BuildMethodRouter(method_router, rs, res, rls) ==
    IF rs = <<>> THEN [ok |-> TRUE, mr |-> method_router]
    ELSE LET name == Head(rs).name
             r == Head(rs).mr
             layered == MethodRouterLayer(r,
                           GuardActionLayerRoles(GuardActionLayerNew(res, name), rls))
         IN  IF MergeOverlaps(method_router, layered)
             THEN [ok |-> FALSE, mr |-> method_router]
             ELSE BuildMethodRouter(MethodRouterMerge(method_router, layered),
                                    Tail(rs), res, rls)

RECURSIVE BuildRouter(_, _, _, _)
\* the outer loop of build: one router.route(path, method_router) per entry
BuildRouter(r, acts, res, rls) ==
    IF acts = <<>> THEN r
    ELSE LET b == BuildMethodRouter(MethodRouterNew, ActionRouters(Head(acts).action),
                                    res, rls)
         IN  IF ~b.ok THEN [r EXCEPT !.ok = FALSE]
             ELSE BuildRouter(RouterRoute(r, Head(acts).path, b.mr),
                              Tail(acts), res, rls)

Build(acts, res, rls) == BuildRouter(RouterNew, acts, res, rls)


(***************************************************************************)
(* Inputs of the builder calls, as the tests and the example write them.   *)
(***************************************************************************)
RoutingGet(h) == MethodRouterOn(MethodRouterNew, "GET", h)

\* get(handler), get(handler).post(handler2)
MethodRouterInputs ==
    {RoutingGet("handler"), MethodRouterOn(RoutingGet("handler"), "POST", "handler2")}

\* action::get("action1", handler).post("action2", handler2)
ActionInputs ==
    {ActionOn(ActionOn(ActionNew, "GET", "action1", "handler"),
              "POST", "action2", "handler2")}

PrefixChain(n) == [i \in 1..n |-> Prefix[1]]

\* request paths: registered or not, under zero or more prefixes
RequestPaths ==
    {PrefixChain(n) \o p : n \in 0..MaxNest, p \in Paths \cup {<<"none">>}}

Requests == [path : RequestPaths, method : Methods, body : Bodies]

NoLast == [state |-> "idle", req |-> NoReq, trace |-> <<>>, resp |-> NoResp]

NoTask == [pc |-> "idle", req |-> NoReq, worker |-> 0, trace |-> <<>>,
           resp |-> NoResp]

NoEvent == [set |-> FALSE, worker |-> 0]

(***************************************************************************)
(* The builder and the served router.                                      *)
(***************************************************************************)
\* GuardRouter::new(resource, guard)
Init ==
    /\ pc = "building"
    /\ guard \in Guards
    /\ resource = Resource
    /\ roles = NoRoles
    /\ actions = <<>>
    /\ rolesCalls = 0
    /\ router = RouterNew
    /\ app = RouterNew
    /\ nestDepth = 0
    /\ last = NoLast
    /\ tasks = [t \in 1..MaxTasks |-> NoTask]
    /\ running = [w \in 1..NumWorkers |-> 0]
    /\ builds = 0
    /\ given = <<>>
    /\ event = NoEvent

\* the builder is held by its owner: new, or kept after a build()
Held == pc \in {"building", "kept"}

\* variant: the new registration is put in front of the earlier ones
actionPrepend(name, path, method_router) ==
    /\ Held
    /\ Len(actions) < MaxActions
    /\ actions' = <<[path |-> path,
                     action |-> ActionCreate(name, method_router)]>> \o actions
    /\ given' = Append(given, path)
    /\ pc' = "building"
    /\ UNCHANGED <<guard, resource, roles, rolesCalls, serveVars, last, concVars>>

\* GuardRouter::action(name, path, method_router)
action(name, path, method_router) ==
    /\ Held
    /\ Len(actions) < MaxActions
    /\ actions' = Append(actions, [path |-> path,
                                   action |-> ActionCreate(name, method_router)])
    /\ given' = Append(given, path)
    /\ pc' = "building"
    /\ UNCHANGED <<guard, resource, roles, rolesCalls, serveVars, last, concVars>>

\* GuardRouter::route(path, action)
route(path, a) ==
    /\ Held
    /\ Len(actions) < MaxActions
    /\ actions' = Append(actions, [path |-> path, action |-> a])
    /\ given' = Append(given, path)
    /\ pc' = "building"
    /\ UNCHANGED <<guard, resource, roles, rolesCalls, serveVars, last, concVars>>

\* variant: roles() adds to the list already set
SetRolesMerge(rs) ==
    /\ Held
    /\ rolesCalls < MaxRolesCalls
    /\ roles' = SomeRoles(roles.val \o rs)
    /\ rolesCalls' = rolesCalls + 1
    /\ pc' = "building"
    /\ UNCHANGED <<guard, resource, actions, given, serveVars, last, concVars>>

\* GuardRouter::roles(roles)
SetRoles(rs) ==
    /\ Held
    /\ rolesCalls < MaxRolesCalls
    /\ roles' = SomeRoles(rs)
    /\ rolesCalls' = rolesCalls + 1
    /\ pc' = "building"
    /\ UNCHANGED <<guard, resource, actions, given, serveVars, last, concVars>>

\* GuardRouter::build(); the builder expression ends with it
build ==
    /\ pc = "building"
    /\ LET r == Build(actions, resource, roles)
       IN  /\ router' = r
           /\ app' = r
           /\ pc' = IF r.ok THEN "built" ELSE "panicked"
    /\ builds' = builds + 1
    /\ UNCHANGED <<builderVars, nestDepth, last, concVars>>

\* Router::new().nest(prefix, app)
nest ==
    /\ pc = "built"
    /\ last.state = "idle"
    /\ nestDepth < MaxNest
    /\ app' = RouterNest(Prefix, app)
    /\ nestDepth' = nestDepth + 1
    /\ UNCHANGED <<pc, builderVars, router, builds, last, concVars>>

\* one request served by the application, start to response
Request(req) ==
    /\ pc = "built"
    /\ last.state = "idle"
    /\ LET out == RouterCall(guard, app, req)
       IN  last' = [state |-> "responded", req |-> req, trace |-> out.trace,
                    resp |-> out.resp]
    /\ UNCHANGED <<pc, builderVars, serveVars, concVars>>

\* the response has gone to the client
Deliver ==
    /\ last.state = "responded"
    /\ last' = NoLast
    /\ UNCHANGED <<pc, builderVars, serveVars, concVars>>

Next ==
    \/ \E n \in Names, p \in Paths, mr \in MethodRouterInputs : action(n, p, mr)
    \/ \E p \in Paths, a \in ActionInputs : route(p, a)
    \/ \E rs \in RoleLists : SetRoles(rs)
    \/ build
    \/ nest
    \/ \E req \in Requests : Request(req)
    \/ Deliver

Spec == Init /\ [][Next]_vars


(***************************************************************************)
(* Concurrent requests on the host runtime.  Each request is a task that   *)
(* a worker thread polls; GuardService::call runs inside that poll and     *)
(* drives the guard's futures with futures::executor::block_on, which      *)
(* keeps the calling thread until the guard has returned.  running[w] is   *)
(* the task whose poll occupies worker w (0: none).                        *)
(***************************************************************************)
Workers == 1..NumWorkers
Tasks == 1..MaxTasks

ConcRequests == [path : Paths \cup {<<"none">>}, method : Methods, body : {"b1"}]

\* the builder of the tests: one aggregate at /test, with or without roles
ConcActions ==
    <<[path |-> <<"test">>,
       action |-> ActionOn(ActionOn(ActionNew, "GET", "action1", "handler"),
                           "POST", "action2", "handler2")]>>

InitConc ==
    /\ pc = "built"
    /\ guard \in Guards
    /\ resource = Resource
    /\ \E n \in 0..1 :
          /\ rolesCalls = n
          /\ roles = IF n = 0 THEN NoRoles ELSE SomeRoles(<<"admin">>)
    /\ actions = ConcActions
    /\ given = <<ConcActions[1].path>>
    /\ builds = 1
    /\ event = NoEvent
    /\ router = Build(actions, resource, roles)
    /\ app = router
    /\ nestDepth = 0
    /\ last = NoLast
    /\ tasks = [t \in Tasks |-> NoTask]
    /\ running = [w \in Workers |-> 0]

\* Router and MethodRouter dispatch up to the rt that will be called
Lookup(r, req) ==
    IF req.path \in DOMAIN r.routes
    THEN LET mr == r.routes[req.path].mr
         IN  IF mr.ep[req.method].set THEN mr.ep[req.method].route ELSE mr.fallback
    ELSE [h |-> "404", layers |-> <<>>]

Unguarded(rt, req) ==
    IF rt.h = "404" THEN [trace |-> <<>>, resp |-> NotFound]
    ELSE RouteCall(guard, rt, req)

\* the runtime accepts a request and queues its task on worker w
Spawn(t, req, w) ==
    /\ pc = "built"
    /\ tasks[t].pc = "idle"
    /\ tasks' = [tasks EXCEPT ![t] = [NoTask EXCEPT !.pc = "ready", !.req = req,
                                                      !.worker = w]]
    /\ UNCHANGED <<pc, builderVars, serveVars, last, running, event>>

\* worker polls the task: dispatch, then GuardService::call up to block_on
Poll(t) ==
    /\ tasks[t].pc = "ready"
    /\ running[tasks[t].worker] = 0
    /\ LET rt == Lookup(app, tasks[t].req)
           req == tasks[t].req
       IN  IF rt.layers = <<>>
           THEN /\ tasks' = [tasks EXCEPT ![t].pc = "done",
                                          ![t].trace = Unguarded(rt, req).trace,
                                          ![t].resp = Unguarded(rt, req).resp]
                /\ UNCHANGED running
           ELSE LET svc == Head(rt.layers)
                IN  /\ tasks' = [tasks EXCEPT
                            ![t].pc = IF svc.roles.some THEN "on_roles" ELSE "on_guard",
                            ![t].trace = <<Entry("call", svc, Allow, "", req)>>]
                    /\ running' = [running EXCEPT ![tasks[t].worker] = t]
    /\ UNCHANGED <<pc, builderVars, serveVars, last, event>>

\* guard.on_roles(roles).await resolves inside block_on
RolesReturn(t) ==
    /\ tasks[t].pc = "on_roles"
    /\ LET svc == Head(Lookup(app, tasks[t].req).layers)
           res == on_roles(guard, svc.roles.val)
           e == Entry("on_roles", [svc EXCEPT !.resource = "", !.action = ""],
                      res, "", NoReq)
       IN  IF res.ok
           THEN /\ tasks' = [tasks EXCEPT ![t].pc = "on_guard",
                                          ![t].trace = Append(@, e)]
                /\ UNCHANGED running
           ELSE /\ tasks' = [tasks EXCEPT ![t].pc = "done",
                                          ![t].trace = Append(@, e),
                                          ![t].resp = res.resp]
                /\ running' = [running EXCEPT ![tasks[t].worker] = 0]
    /\ UNCHANGED <<pc, builderVars, serveVars, last, event>>

\* guard.on_guard(resource, action).await resolves inside block_on; on Allow
\* call() hands inner.call(request) back to the runtime as a future
GuardReturn(t) ==
    /\ tasks[t].pc = "on_guard"
    /\ LET svc == Head(Lookup(app, tasks[t].req).layers)
           res == on_guard(guard, svc.resource, svc.action)
           e == Entry("on_guard", [svc EXCEPT !.roles = NoRoles], res, "", NoReq)
       IN  tasks' = [tasks EXCEPT ![t].pc = IF res.ok THEN "inner" ELSE "done",
                                  ![t].trace = Append(@, e),
                                  ![t].resp = res.resp]
    /\ running' = [running EXCEPT ![tasks[t].worker] = 0]
    /\ UNCHANGED <<pc, builderVars, serveVars, last, event>>

\* the worker polls the downstream future to completion
HandlerReturn(t) ==
    /\ tasks[t].pc = "inner"
    /\ running[tasks[t].worker] = 0
    /\ LET rt == Lookup(app, tasks[t].req)
           out == RouteCall(guard, [rt EXCEPT !.layers = Tail(@)], tasks[t].req)
       IN  tasks' = [tasks EXCEPT ![t].pc = "done",
                                  ![t].trace = @ \o out.trace,
                                  ![t].resp = out.resp]
    /\ UNCHANGED <<pc, builderVars, serveVars, last, running, event>>

NextConc ==
    \/ \E t \in Tasks, req \in ConcRequests, w \in Workers : Spawn(t, req, w)
    \/ \E t \in Tasks : Poll(t)
    \/ \E t \in Tasks : RolesReturn(t)
    \/ \E t \in Tasks : GuardReturn(t)
    \/ \E t \in Tasks : HandlerReturn(t)

SpecConc == InitConc /\ [][NextConc]_vars


(***************************************************************************)
(* What the claims speak about.                                            *)
(***************************************************************************)
Idx(tr, op) == {i \in DOMAIN tr : tr[i].op = op}
Count(tr, op) == Cardinality(Idx(tr, op))

Responded == pc = "built" /\ last.state = "responded"

\* the request path lies under the prefixes the router is nested under
UnderPrefix(req) ==
    /\ Len(req.path) >= nestDepth
    /\ SubSeq(req.path, 1, nestDepth) = PrefixChain(nestDepth)

\* the request as the built router sees it
Inner(req) == [req EXCEPT !.path = SubSeq(@, nestDepth + 1, Len(@))]

\* the registrations of the builder's list that handle (path, method)
Bindings(path, method) ==
    {ij \in UNION {{i} \X DOMAIN actions[i].action : i \in DOMAIN actions} :
        /\ actions[ij[1]].path = path
        /\ actions[ij[1]].action[ij[2]].mr.ep[method].set}

BoundNames(path, method) ==
    {actions[ij[1]].action[ij[2]].name : ij \in Bindings(path, method)}

\* the request matches a (path, method) pair that was registered
Registered(req) ==
    UnderPrefix(req) /\ Bindings(Inner(req).path, req.method) # {}

Rejected == Idx(last.trace, "handler") = {} /\ last.resp.status = 403

ForwardedTo(h) ==
    /\ Count(last.trace, "handler") = 1
    /\ \A i \in Idx(last.trace, "handler") :
          last.trace[i].h = h /\ last.resp = last.trace[i].resp

(***************************************************************************)
(* C1: when on_guard returns Deny(r) for a request to a registered (path,  *)
(* method), the downstream handler is not invoked for that request and     *)
(* the response is exactly r, whatever resource, action and roles are      *)
(* configured.                                                             *)
(***************************************************************************)
C1_GuardDenyStops ==
    (Responded /\ Registered(last.req)) =>
        \A i \in Idx(last.trace, "on_guard") :
            ~last.trace[i].ok =>
                /\ Idx(last.trace, "handler") = {}
                /\ last.resp = last.trace[i].resp

C1_Witness ==
    /\ Responded /\ Registered(last.req)
    /\ roles.some /\ roles.val # <<>>
    /\ \E i \in Idx(last.trace, "on_guard") :
          ~last.trace[i].ok /\ last.resp.src = "on_guard"

(***************************************************************************)
(* C2: with a role set configured, every guarded request calls on_roles    *)
(* before on_guard; when on_roles returns Deny, on_guard is not called,    *)
(* the downstream handler is not invoked, and the response is the one      *)
(* on_roles returned.                                                      *)
(***************************************************************************)
C2_RolesBeforeGuard ==
    (Responded /\ roles.some /\ Idx(last.trace, "call") # {}) =>
        /\ Idx(last.trace, "on_roles") # {}
        /\ \A j \in Idx(last.trace, "on_guard") :
              \E i \in Idx(last.trace, "on_roles") : i < j
        /\ \A i \in Idx(last.trace, "on_roles") :
              ~last.trace[i].ok =>
                  /\ Idx(last.trace, "on_guard") = {}
                  /\ Idx(last.trace, "handler") = {}
                  /\ last.resp = last.trace[i].resp

C2_Witness ==
    /\ Responded /\ roles.some /\ Registered(last.req)
    /\ \E i \in Idx(last.trace, "on_roles") : ~last.trace[i].ok
    /\ Bindings(Inner(last.req).path, last.req.method) # {}
    /\ BoundNames(Inner(last.req).path, last.req.method) \cap guard.denied = {}

(***************************************************************************)
(* C3: when the role check (if configured) and on_guard both return Allow, *)
(* the downstream handler is invoked exactly once, with the request the    *)
(* middleware received, and the response is the handler's response.        *)
(***************************************************************************)
C3_AllowForwards ==
    (/\ Responded /\ Registered(last.req)
     /\ \A i \in Idx(last.trace, "on_roles") \cup Idx(last.trace, "on_guard") :
           last.trace[i].ok) =>
        /\ Count(last.trace, "call") = 1
        /\ Count(last.trace, "handler") = 1
        /\ \A c \in Idx(last.trace, "call"), i \in Idx(last.trace, "handler") :
              /\ c < i
              /\ last.trace[i].req = last.trace[c].req
              /\ last.trace[i].req = Inner(last.req)
              /\ last.trace[i].resp = HandlerResponse(last.trace[i].h, last.trace[c].req)
              /\ last.resp = last.trace[i].resp

C3_Witness ==
    /\ Responded /\ Registered(last.req)
    /\ roles.some
    /\ last.req.body = "b2"
    /\ Count(last.trace, "handler") = 1
    /\ last.resp.status = 200

(***************************************************************************)
(* C4: a request matching a registered (path, method) pair calls on_roles  *)
(* exactly once if roles were set on the builder, with the builder's role  *)
(* list; calls on_guard at most once, and not at all only when on_roles    *)
(* denied; and calls on_guard with the builder's resource and the action   *)
(* name registered for that (path, method).                                *)
(***************************************************************************)
C4_BoundTriple ==
    (Responded /\ Registered(last.req)) =>
        /\ Count(last.trace, "on_roles") = (IF roles.some THEN 1 ELSE 0)
        /\ \A i \in Idx(last.trace, "on_roles") : last.trace[i].roles = roles
        /\ Count(last.trace, "on_guard") <= 1
        /\ (Idx(last.trace, "on_guard") = {}) <=>
              (\E i \in Idx(last.trace, "on_roles") : ~last.trace[i].ok)
        /\ \A i \in Idx(last.trace, "on_guard") :
              /\ last.trace[i].resource = resource
              /\ BoundNames(Inner(last.req).path, last.req.method) = {last.trace[i].action}

C4_Witness ==
    /\ Responded /\ Registered(last.req)
    /\ roles.some /\ Len(actions) = 2
    /\ Count(last.trace, "on_roles") = 1
    /\ \E i \in Idx(last.trace, "on_guard") : last.trace[i].action = "action2"


(***************************************************************************)
(* C5: neither on_roles nor on_guard is invoked for a request whose (path, *)
(* method) was not registered: an unregistered path, or a registered path  *)
(* with a method no handler was registered for.                            *)
(***************************************************************************)
C5_NoGuardUnregistered ==
    (Responded /\ ~Registered(last.req)) =>
        /\ Idx(last.trace, "on_roles") = {}
        /\ Idx(last.trace, "on_guard") = {}

(***************************************************************************)
(* C6: on_roles is called only if the builder's role set is non-empty:     *)
(* where roles() was never called, or was called with an empty list, no    *)
(* request triggers on_roles and a guarded request goes directly to        *)
(* on_guard.                                                               *)
(***************************************************************************)
C6_RolesOnlyIfNonEmpty ==
    (Responded /\ (~roles.some \/ roles.val = <<>>)) =>
        /\ Idx(last.trace, "on_roles") = {}
        /\ \A c \in Idx(last.trace, "call") : last.trace[c + 1].op = "on_guard"

(***************************************************************************)
(* C6, amended: on_roles is called only if roles() was called on the       *)
(* builder: where roles() was never called no request triggers on_roles    *)
(* and a guarded request goes directly to on_guard; where it was called    *)
(* with an empty list, on_roles is called with that empty list.            *)
(***************************************************************************)
C6_RolesOnlyIfSet ==
    Responded =>
        /\ ~roles.some =>
              /\ Idx(last.trace, "on_roles") = {}
              /\ \A c \in Idx(last.trace, "call") : last.trace[c + 1].op = "on_guard"
        /\ \A i \in Idx(last.trace, "on_roles") :
              roles.some /\ last.trace[i].roles = roles
        /\ (roles.some /\ roles.val = <<>>) =>
              \A c \in Idx(last.trace, "call") :
                  /\ last.trace[c + 1].op = "on_roles"
                  /\ last.trace[c + 1].roles.val = <<>>

C6_Witness ==
    /\ Responded /\ Registered(last.req)
    /\ roles.some /\ roles.val = <<>>
    /\ \E i \in Idx(last.trace, "on_roles") : last.trace[i].roles.val = <<>>

(***************************************************************************)
(* C8: two actions registered at one path through one Action aggregate,    *)
(* bound to different methods, are gated each by its own action name: when *)
(* the guard denies one action and allows the other (the role check, which *)
(* does not see the action, not denying), a request with the denied        *)
(* action's method is Rejected and a request with the allowed action's     *)
(* method is Forwarded to that action's handler.                           *)
(***************************************************************************)
\* entries j, k of the aggregate registered as actions[i]: different
\* methods, different names, the request matches entry j
Siblings(i, j, k) ==
    LET g == actions[i].action
    IN  /\ j # k
        /\ g[j].name # g[k].name
        /\ actions[i].path = Inner(last.req).path
        /\ g[j].mr.ep[last.req.method].set
        /\ ~g[k].mr.ep[last.req.method].set
        /\ \E m \in Methods : g[k].mr.ep[m].set /\ ~g[j].mr.ep[m].set

RoleCheckAllows == ~roles.some \/ guard.roles_result

C8_IndependentGating ==
    (Responded /\ UnderPrefix(last.req) /\ RoleCheckAllows) =>
        \A i \in DOMAIN actions :
            \A j, k \in DOMAIN actions[i].action :
                Siblings(i, j, k) =>
                    LET g == actions[i].action
                    IN  /\ (g[j].name \in guard.denied /\ g[k].name \notin guard.denied)
                              => Rejected
                        /\ (g[j].name \notin guard.denied /\ g[k].name \in guard.denied)
                              => ForwardedTo(g[j].mr.ep[last.req.method].route.h)

C8_Witness ==
    /\ Responded /\ UnderPrefix(last.req) /\ RoleCheckAllows
    /\ \E i \in DOMAIN actions :
          \E j, k \in DOMAIN actions[i].action :
              /\ Siblings(i, j, k)
              /\ actions[i].action[j].name \notin guard.denied
              /\ actions[i].action[k].name \in guard.denied
              /\ ForwardedTo(actions[i].action[j].mr.ep[last.req.method].route.h)

(***************************************************************************)
(* C9: nesting the built router under a prefix, to any depth, preserves    *)
(* guard behaviour: a request to prefix + p with a registered method       *)
(* triggers the same guard calls with the same (resource, action, roles)   *)
(* and has the same outcome as the request to p on the un-nested router.   *)
(***************************************************************************)
C9_NestPreserves ==
    (Responded /\ nestDepth > 0 /\ Registered(last.req)) =>
        LET flat == RouterCall(guard, router, Inner(last.req))
        IN  /\ last.trace = flat.trace
            /\ last.resp = flat.resp

C9_Witness ==
    /\ Responded /\ nestDepth = 2 /\ Registered(last.req)
    /\ Len(last.req.path) = 3
    /\ roles.some
    /\ Count(last.trace, "handler") = 1

(***************************************************************************)
(* C10: roles(list) replaces the role list set before, and the role list   *)
(* current at build() is the one in every guard layer of the built router, *)
(* for actions registered before or after the roles() call.                *)
(***************************************************************************)
LayerRoles(r) ==
    {l.roles : l \in UNION {
        {r.routes[p].mr.ep[m].route.layers[n] :
            n \in DOMAIN r.routes[p].mr.ep[m].route.layers} :
        p \in DOMAIN r.routes, m \in Methods}}

EndpointsGuarded(r) ==
    \A p \in DOMAIN r.routes, m \in Methods :
        r.routes[p].mr.ep[m].set => Len(r.routes[p].mr.ep[m].route.layers) = 1

InGuard(t) == tasks[t].pc \in {"on_roles", "on_guard"}

AwaitsWorker(t) == tasks[t].pc \in {"ready", "inner"}

C7_SuspendedGuardBlocksOnlyItself ==
    \A t1, t2 \in Tasks :
        (t1 # t2 /\ InGuard(t1) /\ AwaitsWorker(t2)) =>
            ENABLED (Poll(t2) \/ HandlerReturn(t2))


(***************************************************************************)
(* The builder kept by its owner: build() takes &self, so the owner still  *)
(* holds the builder afterwards and may call build() again or go on with   *)
(* action(), route() and roles().                                          *)
(***************************************************************************)
\* variant: build() takes the registrations out of the builder
buildKeptDrains ==
    /\ Held
    /\ builds < MaxBuilds
    /\ LET r == Build(actions, resource, roles)
       IN  /\ router' = r
           /\ app' = r
           /\ pc' = IF r.ok THEN "kept" ELSE "panicked"
    /\ builds' = builds + 1
    /\ actions' = <<>>
    /\ UNCHANGED <<guard, resource, roles, rolesCalls, given, nestDepth, last, concVars>>

\* let router = builder.build();
buildKept ==
    /\ Held
    /\ builds < MaxBuilds
    /\ LET r == Build(actions, resource, roles)
       IN  /\ router' = r
           /\ app' = r
           /\ pc' = IF r.ok THEN "kept" ELSE "panicked"
    /\ builds' = builds + 1
    /\ UNCHANGED <<builderVars, nestDepth, last, concVars>>

NextRebuild ==
    \/ \E n \in Names, p \in Paths, mr \in MethodRouterInputs : action(n, p, mr)
    \/ \E p \in Paths, a \in ActionInputs : route(p, a)
    \/ \E rs \in RoleLists : SetRoles(rs)
    \/ buildKept

\* no request is served while the owner goes on building: what the guard
\* answers plays no part, build() only clones it into the layers
InitRebuild == Init /\ guard.denied = {}

SpecRebuild == InitRebuild /\ [][NextRebuild]_vars

\* the (resource, action, roles) triples a router binds (path, method) to
RouterBindings(r) ==
    UNION {{<<pm[1], pm[2], l.resource, l.action, l.roles>> :
               l \in {r.routes[pm[1]].mr.ep[pm[2]].route.layers[n] :
                         n \in DOMAIN r.routes[pm[1]].mr.ep[pm[2]].route.layers}} :
           pm \in (DOMAIN r.routes) \X Methods}

(***************************************************************************)
(* C11: build() leaves the builder's resource, role list, guard and        *)
(* registration list unchanged; a second build() on the unmodified builder *)
(* gives a router with the same bindings; and after build() the builder    *)
(* can be extended and built again, the new router binding what the        *)
(* extended list registers.                                                *)
(***************************************************************************)
C11_BuildReadOnly ==
    [][(builds' # builds) =>
          /\ resource' = resource /\ roles' = roles /\ guard' = guard
          /\ actions' = actions
          /\ router' = Build(actions', resource', roles')
          /\ (pc = "kept" /\ pc' = "kept") =>
                 /\ router' = router
                 /\ RouterBindings(router') = RouterBindings(router)]_vars

C11_Witness ==
    /\ pc = "kept" /\ builds = 2
    /\ Len(actions) = 2
    /\ router = Build(actions, resource, roles)
    /\ Cardinality(RouterBindings(router)) >= 3


(***************************************************************************)
(* C12: each action name is bound to exactly one (path, method) pair:      *)
(* after any registrations and build(), no action name is passed to        *)
(* on_guard for requests to two different registered (path, method)        *)
(* pairs, action() with a multi-method handler group included.             *)
(***************************************************************************)
\* the (path, method) pairs the builder's list registers
RegisteredPairs == {pm \in Paths \X Methods : Bindings(pm[1], pm[2]) # {}}

\* the action names on_guard receives for a request to (path, method)
GuardedNames(pm) ==
    LET out == RouterCall(guard, router, [path |-> pm[1], method |-> pm[2], body |-> "b1"])
    IN  {out.trace[i].action : i \in Idx(out.trace, "on_guard")}

PairsOf(name) == {pm \in RegisteredPairs : name \in GuardedNames(pm)}

C12_OneNameOnePair ==
    pc = "built" => \A n \in Names : Cardinality(PairsOf(n)) <= 1

(***************************************************************************)
(* C12, amended: each registered (path, method) pair is bound to exactly   *)
(* one action name: requests to one pair pass to on_guard only the name    *)
(* the pair was registered with.  One name may be bound to several pairs:  *)
(* action() with a multi-method handler group binds its name to every      *)
(* method of the group, and a name may be registered at several paths.     *)
(***************************************************************************)
C12_OnePairOneName ==
    pc = "built" =>
        \A pm \in RegisteredPairs :
            /\ Cardinality(BoundNames(pm[1], pm[2])) = 1
            /\ GuardedNames(pm) \subseteq BoundNames(pm[1], pm[2])
            /\ RoleCheckAllows => GuardedNames(pm) = BoundNames(pm[1], pm[2])
            /\ \A i \in DOMAIN actions : \A j \in DOMAIN actions[i].action :
                  (actions[i].path = pm[1] /\ actions[i].action[j].mr.ep[pm[2]].set
                   /\ RoleCheckAllows)
                      => GuardedNames(pm) = {actions[i].action[j].name}

C12_Witness ==
    /\ pc = "built"
    /\ Len(actions) = 1
    /\ Len(actions[1].action) = 1
    /\ \E n \in Names : PairsOf(n) = {<<actions[1].path, "GET">>, <<actions[1].path, "POST">>}


(***************************************************************************)
(* The middleware around any downstream service: GuardService<G, S> takes  *)
(* its Error type from S, and S may fail.                                  *)
(***************************************************************************)
InitErr ==
    /\ pc = "built"
    /\ guard \in Guards
    /\ resource = Resource
    /\ roles \in {NoRoles} \cup {SomeRoles(l) : l \in RoleLists}
    /\ rolesCalls = (IF roles.some THEN 1 ELSE 0)
    /\ \E n \in Names, p \in Paths, h \in {"handler"} \cup Failing :
          actions = <<[path |-> p, action |-> ActionCreate(n, RoutingGet(h))]>>
    /\ given = <<actions[1].path>>
    /\ builds = 1
    /\ router = Build(actions, resource, roles)
    /\ app = router
    /\ nestDepth = 0
    /\ last = NoLast
    /\ tasks = [t \in 1..MaxTasks |-> NoTask]
    /\ running = [w \in 1..NumWorkers |-> 0]
    /\ event = NoEvent

NextErr ==
    \/ nest
    \/ \E req \in Requests : Request(req)
    \/ Deliver

SpecErr == InitErr /\ [][NextErr]_vars

(***************************************************************************)
(* C13: the result of the middleware is an error exactly when the          *)
(* downstream handler was invoked and returned an error, and it is then    *)
(* that error; a Deny of on_roles or on_guard comes back as a normal       *)
(* response, and the guard and the handler are not called again for a      *)
(* denied request.                                                         *)
(***************************************************************************)
C13_ErrorsFromDownstreamOnly ==
    Responded =>
        /\ IsErr(last.resp) <=>
              (\E i \in Idx(last.trace, "handler") : IsErr(last.trace[i].resp))
        /\ \A i \in Idx(last.trace, "handler") :
              IsErr(last.trace[i].resp) => last.resp = last.trace[i].resp
        /\ \A i \in Idx(last.trace, "on_roles") \cup Idx(last.trace, "on_guard") :
              ~last.trace[i].ok =>
                  /\ ~IsErr(last.resp)
                  /\ last.resp = last.trace[i].resp
                  /\ Count(last.trace, "call") = 1
                  /\ Count(last.trace, "on_roles") <= 1
                  /\ Count(last.trace, "on_guard") <= 1
                  /\ Count(last.trace, "handler") = 0
                  /\ i = Len(last.trace)

C13_Witness ==
    /\ Responded /\ Registered(last.req)
    /\ roles.some
    /\ IsErr(last.resp)
    /\ \E i \in Idx(last.trace, "handler") : last.resp = last.trace[i].resp


(***************************************************************************)
(* A guard that awaits an event.  on_roles and on_guard are async: the     *)
(* future they return resolves once the awaited event has occurred.  The   *)
(* event is produced by another task of the runtime, queued on worker      *)
(* event.worker; call() waits for the guard inside block_on, on the worker *)
(* that polls the request.                                                 *)
(***************************************************************************)
InitLive ==
    /\ pc = "built"
    /\ guard \in Guards
    /\ resource = Resource
    /\ \E n \in 0..1 :
          /\ rolesCalls = n
          /\ roles = IF n = 0 THEN NoRoles ELSE SomeRoles(<<"admin">>)
    /\ actions = ConcActions
    /\ given = <<ConcActions[1].path>>
    /\ builds = 1
    /\ event \in [set : {FALSE}, worker : Workers]
    /\ router = Build(actions, resource, roles)
    /\ app = router
    /\ nestDepth = 0
    /\ last = NoLast
    /\ tasks = [t \in Tasks |-> NoTask]
    /\ running = [w \in Workers |-> 0]

\* the producer task is polled by its worker and produces the event
Produce ==
    /\ ~event.set
    /\ running[event.worker] = 0
    /\ event' = [event EXCEPT !.set = TRUE]
    /\ UNCHANGED <<pc, builderVars, serveVars, last, tasks, running>>

\* guard.on_roles(roles).await resolves once the event has occurred
RolesReturnAwait(t) == event.set /\ RolesReturn(t)

\* guard.on_guard(resource, action).await resolves once the event has occurred
GuardReturnAwait(t) == event.set /\ GuardReturn(t)

NextLive ==
    \/ \E t \in Tasks, req \in ConcRequests, w \in Workers : Spawn(t, req, w)
    \/ \E t \in Tasks : Poll(t)
    \/ Produce
    \/ \E t \in Tasks : RolesReturnAwait(t)
    \/ \E t \in Tasks : GuardReturnAwait(t)
    \/ \E t \in Tasks : HandlerReturn(t)

\* a worker that is free polls what is queued on it; a guard whose event has
\* occurred resolves; requests arrive as they please
FairLive ==
    /\ WF_vars(Produce)
    /\ \A t \in Tasks :
          /\ WF_vars(Poll(t))
          /\ WF_vars(RolesReturnAwait(t))
          /\ WF_vars(GuardReturnAwait(t))
          /\ WF_vars(HandlerReturn(t))

SpecLive == InitLive /\ [][NextLive]_vars /\ FairLive

GuardedTask(t) ==
    /\ tasks[t].pc # "idle"
    /\ Lookup(app, tasks[t].req).layers # <<>>

(***************************************************************************)
(* C14: every guarded request eventually reaches a terminal state, also    *)
(* when the event its guard awaits is produced by a task queued on the     *)
(* worker that polls the request.                                          *)
(***************************************************************************)
C14_GuardedRequestTerminates ==
    \A t \in Tasks : GuardedTask(t) ~> (tasks[t].pc = "done")


(***************************************************************************)
(* C15: each action() or route() call appends exactly one registration     *)
(* with the given path at the end of the builder's list, so that after n   *)
(* calls the list has n entries with the paths in call order; these calls  *)
(* and roles() leave the resource name alone, and action()/route() leave   *)
(* the role list and the earlier entries alone.                            *)
(***************************************************************************)
C15_AppendOneEntry ==
    [][/\ (given' # given) =>
             /\ Len(actions') = Len(actions) + 1
             /\ SubSeq(actions', 1, Len(actions)) = actions
             /\ actions'[Len(actions')].path = given'[Len(given')]
             /\ roles' = roles
             /\ resource' = resource
       /\ (rolesCalls' # rolesCalls) =>
             /\ resource' = resource
             /\ actions' = actions
       /\ Len(actions') = Len(given')
       /\ \A i \in 1..Len(actions') : actions'[i].path = given'[i]
       /\ resource' = Resource]_vars

C15_Witness ==
    /\ pc = "building"
    /\ roles.some
    /\ Len(given) = 2 /\ given[1] # given[2]
    /\ Len(actions) = 2
    /\ Len(actions[1].action) = 1 /\ Len(actions[2].action) = 2
    /\ <<actions[1].path, actions[2].path>> = given

====
